---- MODULE Spec2Model ----
(***************************************************************************)
(* A model of script/slog.py of SHAD: the log file selection               *)
(* (SLogAnalysis.getLogFiles), the merge of the selected files into        *)
(* tmp/temp.json and the build of the data frame (SLogAnalysis.readFiles), *)
(* the three report methods (eventFrequencyPlot, eventMatricPlot,          *)
(* analyzeEventMatric), the time parser (SDateTime.formatDateTime) and the *)
(* run of the command line (SLogMenu.generateReport).                      *)
(*                                                                         *)
(* Text is a sequence of one-character strings.  A JSON object of a log    *)
(* line is the three characters "{", a body character and "}"; the body    *)
(* character stands for the members of the object (BodyOf).                *)
(***************************************************************************)
EXTENDS Integers, Sequences, FiniteSets, TLC

VARIABLES listing, content, fileList, tJSON, df, charts, err, op, now, ret

vars == <<listing, content, fileList, tJSON, df, charts, err, op, now, ret>>

(***************************************************************************)
(* Bounds of the model.                                                    *)
(***************************************************************************)
MaxDay == 4
MaxLines == 3
MaxRows == 3
MaxNow == 3
MaxListing == 3

(***************************************************************************)
(* Generic helpers on text.                                                *)
(***************************************************************************)
Last(s) == s[Len(s)]

\* Python s[:-1]: everything but the last character, "" stays "".
Front(s) == IF Len(s) = 0 THEN <<>> ELSE SubSeq(s, 1, Len(s) - 1)

\* Python s[-1:]: the last character as a text, "" for "".
LastChar(s) == IF Len(s) = 0 THEN <<>> ELSE <<s[Len(s)]>>

\* Python "tok in name" on strings.
Contains(tok, name) ==
    \E i \in 0..(Len(name) - Len(tok)) : SubSeq(name, i + 1, i + Len(tok)) = tok

RECURSIVE Flatten(_)
Flatten(ss) == IF ss = <<>> THEN <<>> ELSE Head(ss) \o Flatten(Tail(ss))

Digits == <<"0", "1", "2", "3", "4", "5", "6", "7", "8", "9">>

IsDigit(c) == \E i \in 1..10 : Digits[i] = c

DigitVal(c) == (CHOOSE i \in 1..10 : Digits[i] = c) - 1

\* Python str(n) of a non-negative integer.
RECURSIVE StrInt(_)
StrInt(n) == IF n < 10 THEN <<Digits[n + 1]>>
             ELSE StrInt(n \div 10) \o <<Digits[(n % 10) + 1]>>

\* Python str.upper() on the letters the runtime tags use.
UpperChar(c) == CASE c = "g" -> "G"
                  [] c = "m" -> "M"
                  [] c = "t" -> "T"
                  [] c = "b" -> "B"
                  [] OTHER -> c

Upper(s) == [i \in 1..Len(s) |-> UpperChar(s[i])]

(***************************************************************************)
(* The log directory.  A directory entry is [name, isfile]; listdir gives  *)
(* the entries in an order of its own, so a listing is a sequence.         *)
(***************************************************************************)
LogDir == <<"L">>

\* os.path.join(self.dir, f)
Join(d, f) == d \o <<"/">> \o f

\* The tmp directory the constructor creates under the log directory.
TmpEntry == [name |-> <<"t", "m", "p">>, isfile |-> FALSE]

EntryPool ==
    { [name |-> <<"G", "M", "_", "2", "_", "-", "1">>, isfile |-> TRUE],
      [name |-> <<"G", "M", "_", "1", "2", "_", "-", "2">>, isfile |-> TRUE],
      [name |-> <<"T", "B", "_", "2", "_", "-", "2", "-", "3">>, isfile |-> TRUE],
      [name |-> <<"G", "M", "_", "2", "_", "-", "1", "d">>, isfile |-> FALSE] }

\* Sequences of distinct entries of the pool, at most n long.
RECURSIVE Listings(_)
Listings(n) ==
    IF n = 0 THEN { <<>> }
    ELSE LET shorter == Listings(n - 1)
         IN  shorter \cup
             { Append(l, e) : l \in { x \in shorter : Len(x) = n - 1 },
                              e \in EntryPool }

Distinct(l) == \A i, j \in 1..Len(l) : l[i] = l[j] => i = j

Runtimes == { <<>>, <<"g", "m">> }
Localities == { -1, 2 }
Days == 1..MaxDay
\* None is <<>>, a date d is <<d>>.
OptDays == { <<>> } \cup { <<d>> : d \in Days }

\* str(date): the dates of the model are day numbers of one month.
StrDate(d) == <<"-">> \o StrInt(d)

(***************************************************************************)
(* SLogAnalysis.getLogFiles                                                *)
(***************************************************************************)
\* _fileList = [f for f in listdir(self.dir) if isfile(join(self.dir, f))]
RegularFiles(l) ==
    LET IsFile(e) == e.isfile
        kept == SelectSeq(l, IsFile)
    IN  [i \in 1..Len(kept) |-> kept[i].name]

\* FilterPrefix without the upper-casing of the runtime tag.
FilterPrefixNoUpper(runtime, locality) ==
    (IF Len(runtime) > 0 THEN runtime \o <<"_">> ELSE <<>>)
    \o (IF locality >= 0 THEN StrInt(locality) \o <<"_">> ELSE <<>>)

\* The runtime/locality prefix of the filter token.
FilterPrefix(runtime, locality) ==
    (IF Len(runtime) > 0 THEN Upper(runtime) \o <<"_">> ELSE <<>>)
    \o (IF locality >= 0 THEN StrInt(locality) \o <<"_">> ELSE <<>>)

\* The token of the first branch.
FilterToken(runtime, locality, startDate, endDate) ==
    FilterPrefix(runtime, locality)
    \o (IF startDate # <<>> /\ endDate = <<>> THEN StrDate(startDate[1]) ELSE <<>>)

\* [join(self.dir, f) for f in _fileList if tok in f]
Matching(files, tok) ==
    LET Hit(f) == Contains(tok, f)
        kept == SelectSeq(files, Hit)
    IN  [i \in 1..Len(kept) |-> Join(LogDir, kept[i])]

\* DateRange with the end date included.
DateRangeInclusive(s, e) == [x \in 1..(IF e - s >= 0 THEN e - s + 1 ELSE 0) |-> s + x - 1]

\* [startDate + timedelta(days=x) for x in range(0, (endDate-startDate).days)]
DateRange(s, e) == [x \in 1..(IF e - s > 0 THEN e - s ELSE 0) |-> s + x - 1]

SelectFirstBranch(runtime, locality, startDate, endDate) ==
    Len(runtime) > 0 \/ locality >= 0 \/ (startDate # <<>> /\ endDate = <<>>)

SelectLogFiles(l, runtime, locality, startDate, endDate) ==
    LET files == RegularFiles(l)
    IN  IF SelectFirstBranch(runtime, locality, startDate, endDate)
        THEN Matching(files, FilterToken(runtime, locality, startDate, endDate))
        ELSE IF startDate # <<>> /\ endDate # <<>>
        THEN LET dr == DateRange(startDate[1], endDate[1])
                 fs == FilterPrefix(runtime, locality)
             IN  Flatten([k \in 1..Len(dr) |-> Matching(files, fs \o StrDate(dr[k]))])
        ELSE <<>>

NoFrame == [built |-> FALSE, rows |-> <<>>, hasTIS |-> FALSE, TIS |-> <<>>]
NoTemp == [exists |-> FALSE, text |-> <<>>]

\* The call for a runtime tag, a locality id, a start and an end date out of
\* the sets given.
getLogFilesOn(runtimes, localities, startDates, endDates) ==
    \E runtime \in runtimes, locality \in localities,
       startDate \in startDates, endDate \in endDates :
        /\ fileList' = SelectLogFiles(listing, runtime, locality, startDate, endDate)
        /\ op' = [name |-> "getLogFiles", runtime |-> runtime, locality |-> locality,
                  startDate |-> startDate, endDate |-> endDate]
        /\ err' = "ok"
        /\ charts' = <<>>
        /\ UNCHANGED <<listing, content, tJSON, df, now, ret>>

getLogFiles == getLogFilesOn(Runtimes, Localities, OptDays, OptDays)

InitSelect ==
    /\ listing \in { l \o <<TmpEntry>> : l \in { x \in Listings(MaxListing) : Distinct(x) } }
    /\ content = <<>>
    /\ fileList = <<>>
    /\ tJSON = NoTemp
    /\ df = NoFrame
    /\ charts = <<>>
    /\ err = "ok"
    /\ op = [name |-> "init"]
    /\ now = 0
    /\ ret = [kind |-> "str", value |-> 0, text |-> <<>>]

NextSelect == getLogFiles

SpecSelect == InitSelect /\ [][NextSelect]_vars

(***************************************************************************)
(* Claims on the file selection.                                           *)
(***************************************************************************)
SeqRange(s) == { s[i] : i \in 1..Len(s) }

\* The paths of the regular files of the listing whose name contains tok.
RegularPathsWith(tok) ==
    { Join(LogDir, e.name) : e \in { x \in SeqRange(listing) : x.isfile /\ Contains(tok, x.name) } }

IsSelect == op.name = "getLogFiles"

TokenModeCall ==
    /\ IsSelect
    /\ (Len(op.runtime) > 0 \/ op.locality >= 0 \/ (op.startDate # <<>> /\ op.endDate = <<>>))

ClaimedPrefix ==
    (IF Len(op.runtime) > 0 THEN Upper(op.runtime) \o <<"_">> ELSE <<>>)
    \o (IF op.locality >= 0 THEN StrInt(op.locality) \o <<"_">> ELSE <<>>)

RangeModeCall ==
    /\ IsSelect
    /\ Len(op.runtime) = 0 /\ op.locality < 0
    /\ op.startDate # <<>> /\ op.endDate # <<>>

\* C4: with a start date D1 and an end date D2 only, the selection is exactly
\* the regular files whose name contains str(d) for a day d, D1 <= d < D2;
\* it is empty when D2 <= D1.
C4_DateRangeSelection ==
    RangeModeCall =>
        SeqRange(fileList) =
            UNION { RegularPathsWith(StrDate(d)) :
                      d \in { x \in Days : op.startDate[1] <= x /\ x < op.endDate[1] } }

C4_Witness ==
    /\ RangeModeCall
    /\ op.startDate[1] < op.endDate[1]
    /\ fileList # <<>>
    /\ \E p \in RegularPathsWith(StrDate(op.endDate[1])) : p \notin SeqRange(fileList)

NoFilterCall ==
    /\ IsSelect
    /\ Len(op.runtime) = 0 /\ op.locality < 0
    /\ op.startDate = <<>> /\ op.endDate = <<>>

\* C5: with no filter at all the selection is every regular file of the
\* log directory.
C5_NoFilterSelectsAll ==
    NoFilterCall => SeqRange(fileList) = RegularPathsWith(<<>>)

\* C20: after getLogFiles, in every filter mode, no path is in the file list
\* twice, so no merge reads the lines of a file twice; a file whose name
\* has the date strings of two days of a date range is selected once.
C20_NoPathTwice == IsSelect => Distinct(fileList)

(***************************************************************************)
(* Log files.  A log line is the object "{", body, "}", a comma or none,   *)
(* and the line terminator; only the last line of a file can lack the      *)
(* terminator.                                                             *)
(***************************************************************************)
Bodies == { "a", "b", "c", "d", "f" }

\* The bodies of the files of the merge specification.
MergeBodies == { "a", "b" }

Record(en, ts, et) ==
    [EN |-> en, TS |-> ts, ET |-> et, IS |-> et + 10, OS |-> 2 * et + 20, LI |-> 30 - et]

\* The members of the object a body character stands for.
BodyOf(c) ==
    CASE c = "a" -> Record("A", <<"0", "5", "Z">>, 1)
      [] c = "b" -> Record("B", <<"1", "0", "Z">>, 2)
      [] c = "c" -> Record("A", <<"1", "0", "Z">>, 3)
      [] c = "d" -> Record("A", <<"4", "5", "Z">>, 4)
      [] c = "f" -> Record("B", <<"x", "x", "Z">>, 4)

Fragment(b, comma) == <<"{", b, "}">> \o (IF comma THEN <<",">> ELSE <<>>)

\* The texts of the files of exactly n lines.
RECURSIVE FileTexts(_)
FileTexts(n) ==
    IF n = 1
    THEN { Fragment(b, c) \o nl : b \in MergeBodies, c \in BOOLEAN, nl \in { <<>>, <<"\n">> } }
    ELSE { Fragment(b, c) \o <<"\n">> \o rest :
             b \in MergeBodies, c \in BOOLEAN, rest \in FileTexts(n - 1) }

\* The sequences of file texts of at most budget lines in all.
RECURSIVE FileSets(_)
FileSets(budget) ==
    { <<>> } \cup
    UNION { { <<f>> \o rest : f \in FileTexts(n), rest \in FileSets(budget - n) } :
              n \in 1..budget }

FilePath(i) == Join(LogDir, <<"f">> \o StrInt(i))

(***************************************************************************)
(* SLogAnalysis.readFiles                                                  *)
(***************************************************************************)
\* The lines fileinput yields for one file: each keeps its terminator.
RECURSIVE SplitLines(_)
SplitLines(text) ==
    IF text = <<>> THEN <<>>
    ELSE IF \E i \in 1..Len(text) : text[i] = "\n"
    THEN LET i == CHOOSE k \in 1..Len(text) :
                    text[k] = "\n" /\ \A j \in 1..(k - 1) : text[j] # "\n"
         IN  <<SubSeq(text, 1, i)>> \o SplitLines(SubSeq(text, i + 1, Len(text)))
    ELSE <<text>>

\* fileinput.input(files=self.fileList)
InputLines(files, cont) ==
    Flatten([i \in 1..Len(files) |-> SplitLines(cont[files[i]])])

\* The rewrite of line b of a lines that takes one character off the last
\* line, whatever that character is.
RewriteLineOnce(line, b, a) ==
    IF b = a THEN Front(line) \o <<"]">>
    ELSE IF LastChar(line) # <<",">> THEN Front(line) ELSE line

\* The rewrite of line b of a lines.
RewriteLine(line, b, a) ==
    LET l1 == IF LastChar(line) # <<",">> THEN Front(line) ELSE line
    IN  IF b = a THEN Front(l1) \o <<"]">> ELSE l1

\* The text written to temp.json.
MergedText(files, cont) ==
    LET lines == InputLines(files, cont)
        a == Len(lines)
    IN  <<"[">> \o Flatten([b \in 1..a |-> RewriteLine(lines[b], b, a)])

\* JSON white space between the tokens is skipped.
SkipSpace(text) ==
    LET NotSpace(c) == c # "\n"
    IN  SelectSeq(text, NotSpace)

\* object ("," object)*
RECURSIVE IsElements(_)
IsElements(t) ==
    /\ Len(t) >= 3
    /\ t[1] = "{" /\ t[2] \in Bodies /\ t[3] = "}"
    /\ \/ Len(t) = 3
       \/ Len(t) > 3 /\ t[4] = "," /\ IsElements(SubSeq(t, 5, Len(t)))

\* The text is one JSON array of objects.
IsJsonArray(text) ==
    LET t == SkipSpace(text)
    IN  /\ Len(t) >= 2
        /\ t[1] = "[" /\ t[Len(t)] = "]"
        /\ \/ Len(t) = 2
           \/ IsElements(SubSeq(t, 2, Len(t) - 1))

\* The objects of a JSON array, in order.
JsonElements(text) ==
    LET IsBody(c) == c \in Bodies
    IN  SelectSeq(text, IsBody)

\* pd.DataFrame(pd.read_json(self.tJSON, "record")): one row per object.
BuildFrame(text) ==
    LET els == JsonElements(text)
    IN  [built |-> TRUE, rows |-> [i \in 1..Len(els) |-> BodyOf(els[i])],
         hasTIS |-> FALSE, TIS |-> <<>>]

\* readFiles without the test of line 403 on the file list.
ReadFilesOfAnyList(files, cont, tj, frame) ==
    LET text == MergedText(files, cont)
    IN  IF IsJsonArray(text)
        THEN [tJSON |-> [exists |-> TRUE, text |-> text],
              df |-> BuildFrame(text), err |-> "ok", merged |-> TRUE]
        ELSE [tJSON |-> [exists |-> TRUE, text |-> text],
              df |-> frame, err |-> "ValueError", merged |-> TRUE]

\* readFiles building an empty data frame from a temp.json that is no JSON.
ReadFilesLenient(files, cont, tj, frame) ==
    IF Len(files) > 0
    THEN LET text == MergedText(files, cont)
         IN  [tJSON |-> [exists |-> TRUE, text |-> text],
              df |-> BuildFrame(text), err |-> "ok", merged |-> TRUE]
    ELSE [tJSON |-> tj, df |-> frame, err |-> "ok", merged |-> FALSE]

\* readFiles as a function of the object's state: the new temp.json, the
\* new data frame, "ok" or the exception that leaves the method, and whether
\* the merge and the build of lines 404-428 were run.
ReadFiles(files, cont, tj, frame) ==
    IF Len(files) > 0
    THEN LET text == MergedText(files, cont)
         IN  IF IsJsonArray(text)
             THEN [tJSON |-> [exists |-> TRUE, text |-> text],
                   df |-> BuildFrame(text), err |-> "ok", merged |-> TRUE]
             ELSE [tJSON |-> [exists |-> TRUE, text |-> text],
                   df |-> frame, err |-> "ValueError", merged |-> TRUE]
    ELSE [tJSON |-> tj, df |-> frame, err |-> "ok", merged |-> FALSE]

readFiles ==
    \E r \in { ReadFiles(fileList, content, tJSON, df) } :
        /\ tJSON' = r.tJSON
        /\ df' = r.df
        /\ err' = r.err
        /\ op' = [name |-> "readFiles"]
        /\ charts' = <<>>
        /\ UNCHANGED <<listing, content, fileList, now, ret>>

(***************************************************************************)
(* SDateTime.formatDateTime.  A format is a text in which "%" stands for   *)
(* one directive, a digit of the input, and any other character for        *)
(* itself; the value of a parsed text is the number its digits spell.      *)
(***************************************************************************)
\* "%Y-%m-%dT%H:%M:%S.%fZ", the default format and the format of TS.
IsoFormat == <<"%", "%", "Z">>
\* "%m-%d-%Y", the format of the command line dates.
DateFormat == <<"%", "-", "%">>
\* The layout str(datetime.now()) has: date, a blank, time.
NowLayout == <<"%", " ", "%">>

\* str(dt.datetime.now()) when the clock reads n.
StrNow(n) == <<Digits[(n \div 10) + 1], " ", Digits[(n % 10) + 1]>>

\* dt.datetime.strptime(text, fmt) succeeds.
StrpOk(text, fmt) ==
    /\ Len(text) = Len(fmt)
    /\ \A i \in 1..Len(fmt) :
          IF fmt[i] = "%" THEN IsDigit(text[i]) ELSE text[i] = fmt[i]

RECURSIVE DigitsValue(_)
DigitsValue(text) ==
    IF text = <<>> THEN 0
    ELSE IF IsDigit(Last(text))
         THEN 10 * DigitsValue(Front(text)) + DigitVal(Last(text))
         ELSE DigitsValue(Front(text))

\* The datetime strptime returns.
StrpValue(text, fmt) == DigitsValue(text)

\* formatDateTime(t, format) with the clock at n: kind is "datetime" (value),
\* "str" (text) or "raise".
FormatDateTime(t, format, n) ==
    LET Dt(v) == [kind |-> "datetime", value |-> v, text |-> <<>>]
        Raise == [kind |-> "raise", value |-> 0, text |-> <<>>]
        Fallback == IF StrpOk(StrNow(n), format)
                    THEN Dt(StrpValue(StrNow(n), format))
                    ELSE Raise
    IN  IF Len(t) = 0
        THEN IF Len(format) = 0
             THEN [kind |-> "str", value |-> 0, text |-> StrNow(n)]
             ELSE Fallback
        ELSE IF StrpOk(t, format)
             THEN Dt(StrpValue(t, format))
             ELSE Fallback

(***************************************************************************)
(* The data frame: rows with the columns EN, TS, ET, IS, OS, LI and, once  *)
(* computed, the column TIS.  A TIS value is the fraction <<n, d>>.        *)
(***************************************************************************)
Metrics == <<"ET", "IS", "OS", "LI">>

Col(row, c) == CASE c = "ET" -> row.ET
                 [] c = "IS" -> row.IS
                 [] c = "OS" -> row.OS
                 [] c = "LI" -> row.LI

\* The order groupby gives the group keys: sorted.
EventOrder == <<"A", "B">>

RowsOf(rows, en) ==
    LET Has(r) == r.EN = en
    IN  SelectSeq(rows, Has)

\* The keys of df.groupby('EN').
GroupKeys(rows) ==
    LET Present(en) == \E i \in 1..Len(rows) : rows[i].EN = en
    IN  SelectSeq(EventOrder, Present)

RECURSIVE SumCol(_, _)
SumCol(rows, c) ==
    IF rows = <<>> THEN 0 ELSE Col(Head(rows), c) + SumCol(Tail(rows), c)

\* A group size that counts the rows of every group.
GroupSizeAllRows(rows, en) == Len(rows)

\* groupby('EN').size() of one group.
GroupSize(rows, en) == Len(RowsOf(rows, en))

\* A group sum that adds the column over the rows of every group.
GroupSumAllRows(rows, en, c) == SumCol(rows, c)

\* groupby('EN')[c].sum() of one group.
GroupSum(rows, en, c) == SumCol(RowsOf(rows, en), c)

\* The arguments barPlot gets.
BarCall(x, y) == [kind |-> "bar", x |-> x, y |-> y]

\* The data frame built by readFiles at every report, built before or not.
EnsureAfresh(files, cont, tj, frame) == ReadFiles(files, cont, tj, frame)

\* The data frame a report method works on: built on demand by readFiles.
Ensure(files, cont, tj, frame) ==
    IF ~frame.built THEN ReadFiles(files, cont, tj, frame)
    ELSE [tJSON |-> tj, df |-> frame, err |-> "ok", merged |-> FALSE]

\* eventFrequencyPlot as a function of the object's state: temp.json, the
\* data frame, "ok" or the exception that leaves the method, the calls of
\* the sink, and whether readFiles merged.
EventFrequencyPlot(files, cont, tj, frame) ==
    LET r == Ensure(files, cont, tj, frame)
        keys == GroupKeys(r.df.rows)
        Result(e, c) == [tJSON |-> r.tJSON, df |-> r.df, err |-> e, charts |-> c,
                         merged |-> r.merged]
    IN  IF r.err # "ok" THEN Result(r.err, <<>>)
        ELSE IF ~r.df.built THEN Result("ok", <<>>)
        ELSE IF r.df.rows = <<>> THEN Result("KeyError", <<>>)
        ELSE Result("ok", << BarCall(keys,
                               [i \in 1..Len(keys) |-> GroupSize(r.df.rows, keys[i])]) >>)

\* eventMatricPlot(matricColName) as a function of the object's state.
EventMatricPlot(files, cont, tj, frame, matricColName) ==
    LET r == Ensure(files, cont, tj, frame)
        keys == GroupKeys(r.df.rows)
        Result(e, c) == [tJSON |-> r.tJSON, df |-> r.df, err |-> e, charts |-> c,
                         merged |-> r.merged]
    IN  IF r.err # "ok" THEN Result(r.err, <<>>)
        ELSE IF ~r.df.built THEN Result("ok", <<>>)
        ELSE IF r.df.rows = <<>> THEN Result("KeyError", <<>>)
        ELSE Result("ok", << BarCall(keys,
                               [i \in 1..Len(keys) |->
                                   GroupSum(r.df.rows, keys[i], matricColName)]) >>)

eventFrequencyPlot ==
    \E r \in { EventFrequencyPlot(fileList, content, tJSON, df) } :
        /\ tJSON' = r.tJSON
        /\ df' = r.df
        /\ err' = r.err
        /\ charts' = r.charts
        /\ op' = [name |-> "eventFrequencyPlot"]
        /\ UNCHANGED <<listing, content, fileList, now, ret>>

eventMatricPlot ==
    \E matricColName \in SeqRange(Metrics) :
      \E r \in { EventMatricPlot(fileList, content, tJSON, df, matricColName) } :
        /\ tJSON' = r.tJSON
        /\ df' = r.df
        /\ err' = r.err
        /\ charts' = r.charts
        /\ op' = [name |-> "eventMatricPlot", matricColName |-> matricColName]
        /\ UNCHANGED <<listing, content, fileList, now, ret>>

(***************************************************************************)
(* The merge and the bar chart reports on a selection of log files.        *)
(***************************************************************************)
InitMerge ==
    \E fs \in FileSets(MaxLines) :
        /\ fileList = [i \in 1..Len(fs) |-> FilePath(i)]
        /\ content = [p \in { FilePath(i) : i \in 1..Len(fs) } |->
                         fs[CHOOSE i \in 1..Len(fs) : FilePath(i) = p]]
        /\ listing = [i \in 1..Len(fs) |-> [name |-> <<"f">> \o StrInt(i), isfile |-> TRUE]]
                     \o <<TmpEntry>>
        /\ tJSON = NoTemp
        /\ df = NoFrame
        /\ charts = <<>>
        /\ err = "ok"
        /\ op = [name |-> "init"]
        /\ now = 0
        /\ ret = <<>>

NextMerge == readFiles \/ eventFrequencyPlot \/ eventMatricPlot

SpecMerge == InitMerge /\ [][NextMerge]_vars

\* The log lines of the selection, without their terminators.
SelectedLines ==
    LET lines == InputLines(fileList, content)
    IN  [i \in 1..Len(lines) |->
            IF Last(lines[i]) = "\n" THEN Front(lines[i]) ELSE lines[i]]

IsObject(t) == Len(t) = 3 /\ t[1] = "{" /\ t[2] \in Bodies /\ t[3] = "}"

\* Every line is an object followed by a comma; the last line of the last
\* file may lack the comma.
CommasPresent ==
    LET ls == SelectedLines
    IN  \A i \in 1..Len(ls) :
           \/ Len(ls[i]) = 4 /\ IsObject(Front(ls[i])) /\ ls[i][4] = ","
           \/ i = Len(ls) /\ IsObject(ls[i])

\* C1: the files selected, each line an object with the comma after it,
\* the last line of all with or without one, temp.json as written is one
\* JSON array with as many elements as the files have lines.
C1_MergeParses ==
    (fileList # <<>> /\ CommasPresent /\ tJSON.exists) =>
        /\ IsJsonArray(tJSON.text)
        /\ Len(JsonElements(tJSON.text)) = Len(SelectedLines)

\* C2: temp.json, once written, is one JSON array, whatever the number of
\* files and whether or not the lines end with a comma or a newline.
C2_MergedIsArray == tJSON.exists => IsJsonArray(tJSON.text)

\* temp.json is "[" and then the lines of the selection, line i of n as
\* Written(line, i, n) gives it.
WrittenAs(Written(_, _, _)) ==
    LET lines == InputLines(fileList, content)
    IN  tJSON.text =
          <<"[">> \o Flatten([i \in 1..Len(lines) |-> Written(lines[i], i, Len(lines))])

\* C13 as stated: the last line is written without its one final character
\* and with "]" in its place; every other line loses its final character
\* only if it does not end with a comma.
C13_LastLineLosesOneChar ==
    LET Claimed(line, i, n) ==
            IF i = n THEN Front(line) \o <<"]">>
            ELSE IF Last(line) = "," THEN line ELSE Front(line)
    IN  tJSON.exists => WrittenAs(Claimed)

\* C13 amended: every line, the last one too, first loses its final
\* character if it does not end with a comma; the last line then loses one
\* more character, whatever it is, and gets "]" in its place.  So a last
\* line that ends with a comma and its terminator loses both of them.
C13_LineRewriting ==
    LET Amended(line, i, n) ==
            IF i < n THEN (IF Last(line) = "," THEN line ELSE Front(line))
            ELSE IF Last(line) = "," THEN Front(line) \o <<"]">>
            ELSE Front(Front(line)) \o <<"]">>
    IN  tJSON.exists => WrittenAs(Amended)

\* Two files: the first ends with a comma and no terminator, the last line
\* of all ends with a comma and its terminator.
C13_Witness ==
    /\ tJSON.exists
    /\ Len(fileList) = 2
    /\ Last(content[fileList[1]]) = ","
    /\ LET t == content[fileList[2]]
       IN  Len(t) >= 2 /\ t[Len(t)] = "\n" /\ t[Len(t) - 1] = ","
    /\ IsJsonArray(tJSON.text)

\* The selection is three files of one line each, the object with EN "A"
\* and ET 1.
ThreeFilesOfA ==
    /\ Len(fileList) = 3
    /\ \A i \in 1..3 : content[fileList[i]] \in { <<"{", "a", "}">>, <<"{", "a", "}", "\n">> }

\* C8: on three one-line files holding the object with EN "A" and ET 1,
\* Frequency hands the sink ("A", 3) and MetricSum("ET") ("A", 3).
C8_EndToEnd ==
    /\ (ThreeFilesOfA /\ op.name = "eventFrequencyPlot") =>
          charts = << BarCall(<<"A">>, <<3>>) >>
    /\ (ThreeFilesOfA /\ op.name = "eventMatricPlot" /\ op.matricColName = "ET") =>
          charts = << BarCall(<<"A">>, <<3>>) >>

(***************************************************************************)
(* SLogAnalysis.__timeDistanceofAnEvent and analyzeEventMatric             *)
(***************************************************************************)
LowerChar(c) == CASE c = "S" -> "s" [] c = "M" -> "m" [] c = "I" -> "i"
                  [] c = "N" -> "n" [] c = "H" -> "h" [] c = "R" -> "r"
                  [] c = "O" -> "o" [] c = "U" -> "u" [] c = "D" -> "d"
                  [] c = "A" -> "a" [] c = "Y" -> "y" [] c = "T" -> "t"
                  [] OTHER -> c

\* Python str.lower()
Lower(s) == [i \in 1..Len(s) |-> LowerChar(s[i])]

Units == { <<"s">>, <<"m">>, <<"M">>, <<"m", "i", "n">>, <<"h">>, <<"H", "R">>,
           <<"h", "o", "u", "r">>, <<"D">>, <<"d", "a", "y">>, <<"m", "n">>,
           <<"M", "O", "N", "T", "H">>, <<"m", "s">> }

\* The units of the aggregation specification.
SomeUnits == { <<"s">>, <<"M">>, <<"m", "i", "n">>, <<"H", "R">>, <<"d", "a", "y">>,
               <<"M", "O", "N", "T", "H">>, <<"m", "s">> }

\* A divisor that matches the unit without lowering it.
UnitDivisorCaseSensitive(unit) ==
    LET u == unit
    IN  IF u = <<"m">> \/ u = <<"m", "i", "n">> THEN 60
        ELSE IF u = <<"h">> \/ u = <<"h", "r">> \/ u = <<"h", "o", "u", "r">> THEN 60 * 60
        ELSE IF u = <<"d">> \/ u = <<"d", "a", "y">> THEN 60 * 60 * 24
        ELSE IF u = <<"m", "n">> \/ u = <<"m", "o", "n", "t", "h">> THEN 60 * 60 * 24 * 30
        ELSE 1

\* What the seconds are divided by for a unit; 1 when no branch divides.
UnitDivisor(unit) ==
    LET u == Lower(unit)
    IN  IF u = <<"m">> \/ u = <<"m", "i", "n">> THEN 60
        ELSE IF u = <<"h">> \/ u = <<"h", "r">> \/ u = <<"h", "o", "u", "r">> THEN 60 * 60
        ELSE IF u = <<"d">> \/ u = <<"d", "a", "y">> THEN 60 * 60 * 24
        ELSE IF u = <<"m", "n">> \/ u = <<"m", "o", "n", "t", "h">> THEN 60 * 60 * 24 * 30
        ELSE 1

\* The order of Python on the characters of a timestamp text.
CharRank(c) == IF IsDigit(c) THEN DigitVal(c) ELSE IF c = "Z" THEN 10 ELSE 11

\* Python a <= b on strings.
RECURSIVE TextLE(_, _)
TextLE(a, b) ==
    IF a = <<>> THEN TRUE
    ELSE IF b = <<>> THEN FALSE
    ELSE IF Head(a) = Head(b) THEN TextLE(Tail(a), Tail(b))
    ELSE CharRank(Head(a)) < CharRank(Head(b))

TSColumn(rows) == [i \in 1..Len(rows) |-> rows[i].TS]

\* sorted(self.df['TS'])[0]
FirstSorted(texts) ==
    CHOOSE t \in SeqRange(texts) : \A u \in SeqRange(texts) : TextLE(t, u)

\* sorted(self.df['TS'])[len - 1]
LastSorted(texts) ==
    CHOOSE t \in SeqRange(texts) : \A u \in SeqRange(texts) : TextLE(u, t)

\* __timeDistanceofAnEvent leaving the rows in the opposite order.
TimeDistanceReversing(frame, st, unit, n) ==
    LET t == FormatDateTime(st, IsoFormat, n)
        p == [i \in 1..Len(frame.rows) |-> FormatDateTime(frame.rows[i].TS, IsoFormat, n)]
        k == UnitDivisor(unit)
    IN  IF t.kind = "raise" \/ \E i \in 1..Len(p) : p[i].kind = "raise"
        THEN [df |-> frame, err |-> "ValueError"]
        ELSE [df |-> [frame EXCEPT
                         !.rows = [i \in 1..Len(p) |-> frame.rows[Len(p) + 1 - i]],
                         !.hasTIS = TRUE,
                         !.TIS = [i \in 1..Len(p) |-> <<p[Len(p) + 1 - i].value - t.value, k>>]],
              err |-> "ok"]

\* __timeDistanceofAnEvent(st, unit) with st a text: the frame with the
\* column TIS, or the exception of formatDateTime.
TimeDistance(frame, st, unit, n) ==
    LET t == FormatDateTime(st, IsoFormat, n)
        p == [i \in 1..Len(frame.rows) |-> FormatDateTime(frame.rows[i].TS, IsoFormat, n)]
        k == UnitDivisor(unit)
    IN  IF t.kind = "raise" \/ \E i \in 1..Len(p) : p[i].kind = "raise"
        THEN [df |-> frame, err |-> "ValueError"]
        ELSE [df |-> [frame EXCEPT !.hasTIS = TRUE,
                         !.TIS = [i \in 1..Len(p) |-> <<p[i].value - t.value, k>>]],
              err |-> "ok"]

\* df.EN.unique(): the names in the order of their first row.
RECURSIVE Unique(_)
Unique(rows) ==
    IF rows = <<>> THEN <<>>
    ELSE LET before == Unique(Front(rows))
         IN  IF Last(rows).EN \in SeqRange(before) THEN before
             ELSE Append(before, Last(rows).EN)

\* The values of a column (TIS or a metric) on the rows of one event.
EventColumn(frame, en, c) ==
    LET Has(i) == frame.rows[i].EN = en
        idx == SelectSeq([i \in 1..Len(frame.rows) |-> i], Has)
    IN  [j \in 1..Len(idx) |->
            IF c = "TIS" THEN frame.TIS[idx[j]] ELSE Col(frame.rows[idx[j]], c)]

\* col after the k-th event of en: cmap(norm(cv[j])) each, or _color.
Colors(en, k) ==
    [j \in 1..k |-> IF Len(en) > 1 THEN [map |-> "viridis", rank |-> j]
                    ELSE [map |-> "_color", rank |-> 0]]

\* The arguments lineChartPlot gets; the title is that of the metric, and in
\* a chart of one event " for " and the event name after it ("" otherwise).
LineCall(m, ten, x, y, color, showLegends, legends) ==
    [kind |-> "line", metric |-> m, event |-> ten, x |-> x, y |-> y, color |-> color,
     showLegends |-> showLegends, legends |-> legends]

\* The lineChartPlot calls of one metric.
MetricCharts(frame, en, m, multiLine) ==
    IF multiLine
    THEN << LineCall(m, "", [k \in 1..Len(en) |-> EventColumn(frame, en[k], "TIS")],
                        [k \in 1..Len(en) |-> EventColumn(frame, en[k], m)],
                        Colors(en, Len(en)), TRUE, en) >>
    ELSE [k \in 1..Len(en) |->
            LineCall(m, en[k], << EventColumn(frame, en[k], "TIS") >>,
                        << EventColumn(frame, en[k], m) >>,
                        Colors(en, k), FALSE, <<>>)]

\* plt.plot(x[i], y[i], color=color[i]) for i in range(len(x)): the colour
\* each series of a call is drawn with.
DrawnColors(call) == [i \in 1..Len(call.x) |-> call.color[i]]

\* tl with the duration padded to the smallest multiple of ts that is not
\* below it.
BucketBoundariesToMultiple(dur, ts) ==
    LET per == dur[2] * ts
        count == (dur[1] + per - 1) \div per
    IN  [i \in 1..count |-> (i - 1) * ts]

\* tl of lines 606-609 for the duration dur, a fraction <<seconds, divisor>>,
\* and the step ts > 0: np.arange(0, dur, ts) has the values i * ts below
\* dur, after dur = dur + ts when dur % ts != 0.
BucketBoundaries(dur, ts) ==
    LET per == dur[2] * ts
        stop == IF dur[1] % per # 0 THEN dur[1] + per ELSE dur[1]
        count == (stop + per - 1) \div per
    IN  [i \in 1..count |-> (i - 1) * ts]

\* analyzeEventMatric(en, matr, ts, unit, multiLine) as a function of the
\* object's state and the clock n ("" is the default of en and matr): temp.json,
\* the data frame, "ok" or the exception that leaves the method, the calls
\* of the sink, whether readFiles merged, and the local value tl.
AnalyzeEventMatric(files, cont, tj, frame, en, matr, ts, unit, multiLine, n) ==
    LET r == Ensure(files, cont, tj, frame)
        ml == IF Len(matr) = 0 THEN Metrics ELSE <<matr>>
        el == IF Len(en) = 0 THEN Unique(r.df.rows) ELSE <<en>>
        ats == TSColumn(r.df.rows)
        first == FirstSorted(ats)
        st == FormatDateTime(first, IsoFormat, n)
        et == FormatDateTime(LastSorted(ats), IsoFormat, n)
        tl == BucketBoundaries(<<et.value - st.value, UnitDivisor(unit)>>, ts)
        td == TimeDistance(r.df, first, unit, n)
        \* min(tdf[_tmn]) of an event without rows
        empty == ~multiLine /\ \E k \in 1..Len(el) : RowsOf(r.df.rows, el[k]) = <<>>
        Result(f, e, c, t) == [tJSON |-> r.tJSON, df |-> f, err |-> e, charts |-> c,
                               merged |-> r.merged, tl |-> t]
    IN  IF r.err # "ok" THEN Result(r.df, r.err, <<>>, <<>>)
        ELSE IF ~r.df.built THEN Result(r.df, "ok", <<>>, <<>>)
        ELSE IF r.df.rows = <<>> THEN Result(r.df, "IndexError", <<>>, <<>>)
        ELSE IF st.kind = "raise" \/ et.kind = "raise"
        THEN Result(r.df, "ValueError", <<>>, <<>>)
        ELSE IF ts = 0 THEN Result(r.df, "ZeroDivisionError", <<>>, <<>>)
        ELSE IF td.err # "ok" THEN Result(r.df, td.err, <<>>, tl)
        ELSE IF empty THEN Result(td.df, "ValueError", <<>>, tl)
        ELSE Result(td.df, "ok",
                    Flatten([i \in 1..Len(ml) |-> MetricCharts(td.df, el, ml[i], multiLine)]),
                    tl)

\* The call for an event name, a metric, a step, a unit and a mode out of the
\* sets given.
analyzeEventMatricOn(ens, matrs, tss, units, modes) ==
    \E en \in ens, matr \in matrs, ts \in tss, unit \in units, multiLine \in modes :
      \E r \in { AnalyzeEventMatric(fileList, content, tJSON, df,
                                     en, matr, ts, unit, multiLine, now) } :
        /\ tJSON' = r.tJSON
        /\ df' = r.df
        /\ err' = r.err
        /\ charts' = r.charts
        /\ op' = [name |-> "analyzeEventMatric", en |-> en, matr |-> matr, ts |-> ts,
                  unit |-> unit, multiLine |-> multiLine, tl |-> r.tl]
        /\ UNCHANGED <<listing, content, fileList, now, ret>>

(***************************************************************************)
(* The three reports on one log file as the runtime writes it: every line  *)
(* an object, a comma and the terminator.                                  *)
(***************************************************************************)
RECURSIVE LogTexts(_)
LogTexts(n) ==
    IF n = 0 THEN { <<>> }
    ELSE { Fragment(b, TRUE) \o <<"\n">> \o rest : b \in Bodies, rest \in LogTexts(n - 1) }

\* self.timeInterval = 10
DefaultInterval == 10

analyzeEventMatric ==
    analyzeEventMatricOn({ "" }, { "ET" }, { DefaultInterval }, SomeUnits, { FALSE })

InitAgg ==
    \E n \in 1..MaxRows : \E text \in LogTexts(n) :
        /\ fileList = << FilePath(1) >>
        /\ content = [p \in { FilePath(1) } |-> text]
        /\ listing = << [name |-> <<"f">> \o StrInt(1), isfile |-> TRUE], TmpEntry >>
        /\ tJSON = NoTemp
        /\ df = NoFrame
        /\ charts = <<>>
        /\ err = "ok"
        /\ op = [name |-> "init"]
        /\ now = 0
        /\ ret = <<>>

NextAgg == eventFrequencyPlot \/ eventMatricPlot \/ analyzeEventMatric

SpecAgg == InitAgg /\ [][NextAgg]_vars

(***************************************************************************)
(* Claims on the aggregations.                                             *)
(***************************************************************************)
RECURSIVE SumOver(_, _)
\* The sum of f[i] over the finite set S of indices.
SumOver(S, f) ==
    IF S = {} THEN 0
    ELSE LET i == CHOOSE x \in S : TRUE
         IN  f[i] + SumOver(S \ {i}, f)

NamesIn(rows) == { rows[i].EN : i \in 1..Len(rows) }

IndicesOf(rows, en) == { i \in 1..Len(rows) : rows[i].EN = en }

\* The chart lists every event name of the frame once.
OnePairPerName(chart) ==
    /\ chart.kind = "bar"
    /\ Len(chart.x) = Len(chart.y)
    /\ SeqRange(chart.x) = NamesIn(df.rows)
    /\ Distinct(chart.x)

FrequencyDone == op.name = "eventFrequencyPlot" /\ err = "ok" /\ df.built

\* C6: Frequency hands the sink one (name, count) pair for each event name
\* of the data set, the count being the number of rows of that name; the
\* counts add up to the number of rows.
C6_FrequencyCounts ==
    FrequencyDone =>
        /\ Len(charts) = 1
        /\ OnePairPerName(charts[1])
        /\ \A i \in 1..Len(charts[1].x) :
              charts[1].y[i] = Cardinality(IndicesOf(df.rows, charts[1].x[i]))
        /\ SumOver(1..Len(charts[1].y), charts[1].y) = Len(df.rows)

C6_Witness ==
    /\ FrequencyDone
    /\ Len(charts) = 1
    /\ Len(charts[1].x) = 2
    /\ \E i \in 1..2 : charts[1].y[i] = 2

MetricSumDone == op.name = "eventMatricPlot" /\ err = "ok" /\ df.built

\* C7: MetricSum on a column among ET, IS, OS, LI hands the sink one
\* (name, sum) pair for each event name, the sum being that of the column
\* over the rows of that name alone: two rows of one event with ET 3 and 4
\* give 7.
C7_MetricSums ==
    MetricSumDone =>
        /\ Len(charts) = 1
        /\ OnePairPerName(charts[1])
        /\ \A i \in 1..Len(charts[1].x) :
              charts[1].y[i] =
                  SumOver(IndicesOf(df.rows, charts[1].x[i]),
                          [j \in 1..Len(df.rows) |-> Col(df.rows[j], op.matricColName)])

C7_Witness ==
    /\ MetricSumDone
    /\ op.matricColName = "ET"
    /\ Len(df.rows) = 3
    /\ \E i, j, k \in 1..3 :
          /\ df.rows[i].EN = "A" /\ df.rows[i].ET = 3
          /\ df.rows[j].EN = "A" /\ df.rows[j].ET = 4
          /\ df.rows[k].EN = "B"
    /\ Len(charts) = 1
    /\ charts[1].x = <<"A", "B">>
    /\ charts[1].y[1] = 7

\* The seconds a timestamp text of the format of TS stands for.
SecondsOf(ts) == 10 * DigitVal(ts[1]) + DigitVal(ts[2])

\* The divisor the unit tokens stand for, upper or lower case.
ClaimedDivisor(unit) ==
    LET u == Lower(unit)
    IN  CASE u \in { <<"s">> } -> 1
          [] u \in { <<"m">>, <<"m", "i", "n">> } -> 60
          [] u \in { <<"h">>, <<"h", "r">>, <<"h", "o", "u", "r">> } -> 3600
          [] u \in { <<"d">>, <<"d", "a", "y">> } -> 86400
          [] u \in { <<"m", "n">>, <<"m", "o", "n", "t", "h">> } -> 2592000
          [] OTHER -> 1

TimeSeriesDone == op.name = "analyzeEventMatric" /\ err = "ok" /\ df.built

\* The fraction <<n, d>> is the number v / k.
IsQuotient(q, v, k) == q[1] * k = v * q[2]

C18_RecordsImmutable ==
    [][df.built =>
          /\ df'.built
          /\ df'.rows = df.rows
          /\ op'.name \in { "eventFrequencyPlot", "eventMatricPlot" } => df' = df]_vars

\* A bar chart report on a data set of several rows that has its TIS column
\* in minutes from an earlier time series.
C18_Witness ==
    /\ op.name = "eventMatricPlot"
    /\ df.built /\ df.hasTIS
    /\ Len(df.rows) >= 2
    /\ \E i \in 1..Len(df.rows) : df.TIS[i] = <<35, 60>>
    /\ Len(charts) = 1

(***************************************************************************)
(* The time series with several steps, in seconds and in minutes.          *)
(***************************************************************************)
\* --ti
TimeSteps == { 0, 5, DefaultInterval }

analyzeEventMatricBySteps ==
    analyzeEventMatricOn({ "" }, { "ET" }, TimeSteps, { <<"s">>, <<"M">> }, { FALSE })

NextBuckets == analyzeEventMatricBySteps

SpecBuckets == InitAgg /\ [][NextBuckets]_vars

\* The seconds from the earliest to the latest row of the data set.
SpanSeconds ==
    LET S == { SecondsOf(df.rows[i].TS) : i \in 1..Len(df.rows) }
    IN  (CHOOSE x \in S : \A y \in S : y <= x) - (CHOOSE x \in S : \A y \in S : x <= y)

\* The multiples m * step of the step, from 0 on, as far as Below(m) holds.
MultiplesWhile(step, Below(_)) ==
    LET count == Cardinality({ m \in 0..(SpanSeconds + 1) : Below(m) })
    IN  [i \in 1..count |-> (i - 1) * step]

\* C14 as stated: the boundaries are 0, step, 2 * step, ... strictly below
\* the duration padded to the smallest multiple of the step that is not
\* below it; the multiples below that padded value are those below the
\* duration itself.
C14_PaddedToNextMultiple ==
    TimeSeriesDone =>
        LET k == ClaimedDivisor(op.unit)
            StrictlyBelowDuration(m) == m * op.ts * k < SpanSeconds
        IN  op.tl = MultiplesWhile(op.ts, StrictlyBelowDuration)

\* C14 amended: a duration that is an exact multiple of the step is left
\* as it is, and the boundaries are the multiples of the step strictly below
\* it; any other duration is raised by one whole step, and the boundaries
\* are the multiples of the step strictly below duration + step, the last of
\* them being the smallest multiple of the step above the duration.
C14_PaddedByOneStep ==
    TimeSeriesDone =>
        LET k == ClaimedDivisor(op.unit)
            exact == SpanSeconds % (op.ts * k) = 0
            StrictlyBelowDuration(m) == m * op.ts * k < SpanSeconds
            StrictlyBelowDurationPlusStep(m) == m * op.ts * k < SpanSeconds + op.ts * k
        IN  op.tl = IF exact THEN MultiplesWhile(op.ts, StrictlyBelowDuration)
                    ELSE MultiplesWhile(op.ts, StrictlyBelowDurationPlusStep)

\* 35 seconds in steps of 10: the boundaries go up to 40.
C14_Witness ==
    /\ TimeSeriesDone
    /\ op.unit = <<"s">>
    /\ op.ts = 10
    /\ SpanSeconds = 35
    /\ op.tl = <<0, 10, 20, 30, 40>>

(***************************************************************************)
(* The time series in both output modes, for all events or one event name  *)
(* and for all metrics or one metric.                                      *)
(***************************************************************************)
analyzeEventMatricByMode ==
    analyzeEventMatricOn({ "", "B" }, { "", "ET" }, { DefaultInterval }, { <<"s">> }, BOOLEAN)

NextCharts == analyzeEventMatricByMode

SpecCharts == InitAgg /\ [][NextCharts]_vars

\* The event names a call plots: the one asked for, or by default the
\* distinct names of the data set.
PlottedNames == IF op.en = "" THEN Unique(df.rows) ELSE << op.en >>

\* The event of series i of a chart: the chart of one event names it in its
\* title, the combined chart in its legend.
SeriesEvent(call, i) == IF call.showLegends THEN call.legends[i] ELSE call.event

\* C15: with more than one event name plotted, each series is drawn with
\* the colormap colour of the rank of its own event among the names, so no
\* two events have one colour, in the charts of one event and in the combined
\* chart alike; with one name plotted the series has the caller's colour.
C15_OwnColorPerEvent ==
    TimeSeriesDone =>
        \A c \in 1..Len(charts) : \A i \in 1..Len(charts[c].x) :
            LET names == PlottedNames
                rank == CHOOSE j \in 1..Len(names) : names[j] = SeriesEvent(charts[c], i)
            IN  DrawnColors(charts[c])[i] =
                    IF Len(names) > 1 THEN [map |-> "viridis", rank |-> rank]
                    ELSE [map |-> "_color", rank |-> 0]

\* C16: on a built data set a call that plots E event names and M metrics
\* calls the line chart sink E * M times, each with one series and no
\* legend, when multiLine is false, and M times, each with E series and the
\* E names as legend, when multiLine is true.
C16_ChartCounts ==
    (op.name = "analyzeEventMatric" /\ df.built) =>
        LET E == Len(PlottedNames)
            M == IF op.matr = "" THEN Len(Metrics) ELSE 1
        IN  IF op.multiLine
            THEN /\ Len(charts) = M
                 /\ \A c \in 1..Len(charts) :
                       /\ Len(charts[c].x) = E
                       /\ charts[c].showLegends
                       /\ charts[c].legends = PlottedNames
            ELSE /\ Len(charts) = E * M
                 /\ \A c \in 1..Len(charts) :
                       Len(charts[c].x) = 1 /\ ~charts[c].showLegends

(***************************************************************************)
(* The time parser on its own: calls of formatDateTime while the clock     *)
(* runs.                                                                   *)
(***************************************************************************)
Texts == { <<>>, <<"0", "5", "Z">>, <<"4", "5", "Z">>, <<"x", "x", "Z">>, <<"0", "5">>,
           <<"1", "-", "2">>, <<"1", " ", "2">>, <<"1", "/", "2">> }

Formats == { IsoFormat, DateFormat, NowLayout, <<>> }

formatDateTime ==
    \E format \in Formats, t \in Texts :
        /\ ret' = FormatDateTime(t, format, now)
        /\ op' = [name |-> "formatDateTime", t |-> t, format |-> format]
        /\ err' = IF FormatDateTime(t, format, now).kind = "raise" THEN "ValueError" ELSE "ok"
        /\ UNCHANGED <<listing, content, fileList, tJSON, df, charts, now>>

\* Time passes between two calls.
Tick ==
    /\ now < MaxNow
    /\ now' = now + 1
    /\ UNCHANGED <<listing, content, fileList, tJSON, df, charts, err, op, ret>>

InitParse ==
    /\ listing = << TmpEntry >>
    /\ content = <<>>
    /\ fileList = <<>>
    /\ tJSON = NoTemp
    /\ df = NoFrame
    /\ charts = <<>>
    /\ err = "ok"
    /\ op = [name |-> "init"]
    /\ now = 0
    /\ ret = [kind |-> "str", value |-> 0, text |-> <<>>]

NextParse == formatDateTime \/ Tick

SpecParse == InitParse /\ [][NextParse]_vars

\* C9: formatDateTime raises for no text and no pattern: for the empty text
\* it returns the current time, for a text the pattern matches the parsed
\* timestamp, and for a text the pattern does not match the current time.
C9_ParseNeverRaises ==
    op.name = "formatDateTime" =>
        /\ ret.kind # "raise"
        /\ (Len(op.t) = 0 /\ Len(op.format) = 0) => (ret.kind = "str" /\ ret.text = StrNow(now))
        /\ (Len(op.t) = 0 /\ Len(op.format) > 0) => (ret.kind = "datetime" /\ ret.value = now)
        /\ (Len(op.t) > 0 /\ StrpOk(op.t, op.format)) =>
              (ret.kind = "datetime" /\ ret.value = DigitsValue(op.t))
        /\ (Len(op.t) > 0 /\ ~StrpOk(op.t, op.format)) =>
              (ret.kind = "datetime" /\ ret.value = now)

(***************************************************************************)
(* One SLogAnalysis object over a log directory: selections and reports in *)
(* any order.  The regular file at place i of the listing holds one log    *)
(* line, and a temp.json of an earlier run may lie in the tmp directory.   *)
(***************************************************************************)
BodyAt == <<"a", "b", "c", "d">>

LogAt(i) == Fragment(BodyAt[((i - 1) % Len(BodyAt)) + 1], TRUE) \o <<"\n">>

OldTemp == [exists |-> TRUE, text |-> <<"[", "{", "a", "}", "]">>]

InitObject ==
    /\ listing \in { l \o <<TmpEntry>> : l \in { x \in Listings(MaxListing) : Distinct(x) } }
    /\ content = [p \in { Join(LogDir, listing[i].name) :
                            i \in { k \in 1..Len(listing) : listing[k].isfile } } |->
                     LogAt(CHOOSE i \in 1..Len(listing) : Join(LogDir, listing[i].name) = p)]
    /\ fileList = <<>>
    /\ tJSON \in { NoTemp, OldTemp }
    /\ df = NoFrame
    /\ charts = <<>>
    /\ err = "ok"
    /\ op = [name |-> "init"]
    /\ now = 0
    /\ ret = [kind |-> "str", value |-> 0, text |-> <<>>]

\* Selections by token: a runtime tag, a locality id or a start date.
getLogFilesByToken == getLogFilesOn(Runtimes, Localities, { <<>>, <<2>> }, { <<>> })

analyzeEventMatricInSeconds ==
    analyzeEventMatricOn({ "" }, { "ET" }, { DefaultInterval }, { <<"s">> }, { FALSE })

NextObject ==
    getLogFilesByToken \/ eventFrequencyPlot \/ eventMatricPlot \/ analyzeEventMatricInSeconds

SpecObject == InitObject /\ [][NextObject]_vars

ReportNames == { "eventFrequencyPlot", "eventMatricPlot", "analyzeEventMatric" }

\* C11: with an empty file list and no data set, each of eventFrequencyPlot,
\* eventMatricPlot and analyzeEventMatric returns without raising, leaves
\* temp.json as it is (neither removed nor written), leaves the data set
\* absent and calls no chart sink, however many of them run in a row.
C11_EmptySelectionNoOp ==
    [][(fileList = <<>> /\ ~df.built /\ op'.name \in ReportNames) =>
          (err' = "ok" /\ tJSON' = tJSON /\ df' = NoFrame /\ charts' = <<>>
             /\ fileList' = <<>>)]_vars

\* The third report in a row on an empty selection of a directory that holds
\* log files and a temp.json of an earlier run.
C11_Witness ==
    /\ fileList = <<>>
    /\ op.name = "analyzeEventMatric"
    /\ ~df.built
    /\ tJSON = OldTemp
    /\ \E i \in 1..Len(listing) : listing[i].isfile

\* C19: the data set a report method aggregates is the one built from the
\* selection of the most recent getLogFiles call: after a report the rows of
\* the data frame are the records of the lines of the files now selected,
\* also when a data set was built from an earlier, different selection.
C19_ReportsUseLatestSelection ==
    (op.name \in ReportNames /\ df.built) =>
        df.rows = BuildFrame(MergedText(fileList, content)).rows

(***************************************************************************)
(* SLogMenu.generateReport: a new SLogAnalysis object on the log           *)
(* directory, one selection, and the reports the flags enable, in the      *)
(* order eventFrequencyPlot, eventMatricPlot, analyzeEventMatric.  An      *)
(* exception of a report method leaves generateReport at once.             *)
(***************************************************************************)
\* logObj after the report method name gave r: its sink calls come after
\* those made so far, and reads lists the methods in which readFiles merged.
After(s, name, r) ==
    [tJSON |-> r.tJSON, df |-> r.df, err |-> r.err, charts |-> s.charts \o r.charts,
     reads |-> IF r.merged THEN Append(s.reads, name) ELSE s.reads]

\* --dtr: no range, or the two dates of a range.
DateRanges == { [startDT |-> <<>>, endDT |-> <<>>], [startDT |-> <<1>>, endDT |-> <<3>>] }

generateReport ==
    \E runtime \in Runtimes, locality \in { -1 }, date \in { <<>>, <<2>> },
       dtr \in DateRanges, eventCount \in BOOLEAN, eventMatricCount \in BOOLEAN,
       eventMatric \in BOOLEAN :
      LET _date == IF dtr.startDT # <<>> THEN dtr.startDT ELSE date
          files == SelectLogFiles(listing, runtime, locality, _date, dtr.endDT)
          \* self.eventMatricName, eventName, matricName, timeUnit, multiLine
          eventMatricName == "ET"
          eventName == ""
          matricName == ""
          timeUnit == <<"s">>
          multiLine == FALSE
          s0 == [tJSON |-> tJSON, df |-> NoFrame, err |-> "ok", charts |-> <<>>,
                 reads |-> <<>>]
      IN  \E s1 \in { IF eventCount
                      THEN After(s0, "eventFrequencyPlot",
                                 EventFrequencyPlot(files, content, s0.tJSON, s0.df))
                      ELSE s0 } :
          \E s2 \in { IF eventMatricCount /\ s1.err = "ok"
                      THEN After(s1, "eventMatricPlot",
                                 EventMatricPlot(files, content, s1.tJSON, s1.df,
                                                 eventMatricName))
                      ELSE s1 } :
          \E s3 \in { IF eventMatric /\ s2.err = "ok"
                      THEN After(s2, "analyzeEventMatric",
                                 AnalyzeEventMatric(files, content, s2.tJSON, s2.df,
                                                    eventName, matricName, DefaultInterval,
                                                    timeUnit, multiLine, now))
                      ELSE s2 } :
            /\ fileList' = files
            /\ tJSON' = s3.tJSON
            /\ df' = s3.df
            /\ err' = s3.err
            /\ charts' = s3.charts
            /\ op' = [name |-> "generateReport", runtime |-> runtime, locality |-> locality,
                      date |-> date, startDT |-> dtr.startDT, endDT |-> dtr.endDT,
                      eventCount |-> eventCount, eventMatricCount |-> eventMatricCount,
                      eventMatric |-> eventMatric, reads |-> s3.reads]
            /\ UNCHANGED <<listing, content, now, ret>>

\* A log file as the runtime writes it, and one whose line lacks the comma.
ReportTexts == { Fragment("a", TRUE) \o <<"\n">>, Fragment("b", FALSE) \o <<"\n">> }

\* Every entry of the pool, in an order of listdir.
WholeListing ==
    CHOOSE l \in Listings(Cardinality(EntryPool)) :
        Len(l) = Cardinality(EntryPool) /\ Distinct(l)

InitReport ==
    /\ listing = WholeListing \o <<TmpEntry>>
    /\ content \in [{ Join(LogDir, listing[i].name) :
                        i \in { k \in 1..Len(listing) : listing[k].isfile } } -> ReportTexts]
    /\ fileList = <<>>
    /\ tJSON = NoTemp
    /\ df = NoFrame
    /\ charts = <<>>
    /\ err = "ok"
    /\ op = [name |-> "init"]
    /\ now = 0
    /\ ret = [kind |-> "str", value |-> 0, text |-> <<>>]

NextReport == generateReport

SpecReport == InitReport /\ [][NextReport]_vars

IsReportRun == op.name = "generateReport"

\* The report method the flags enable first.
FirstEnabled ==
    IF op.eventCount THEN "eventFrequencyPlot"
    ELSE IF op.eventMatricCount THEN "eventMatricPlot"
    ELSE "analyzeEventMatric"

AnyFlag == op.eventCount \/ op.eventMatricCount \/ op.eventMatric

\* C12: when the temp.json a generateReport run merged is not valid JSON, the
\* error leaves the first report method that triggered the build and with it
\* generateReport, the data set stays absent, and no chart of any enabled
\* report goes to a sink in that run.
C12_InvalidJsonIsFatal ==
    (IsReportRun /\ op.reads # <<>> /\ ~IsJsonArray(tJSON.text)) =>
        /\ err = "ValueError"
        /\ op.reads = << FirstEnabled >>
        /\ ~df.built
        /\ charts = <<>>

\* All three reports enabled on a selection of two files, one of them with a
\* line that lacks its comma.
C12_Witness ==
    /\ IsReportRun
    /\ op.eventCount /\ op.eventMatricCount /\ op.eventMatric
    /\ Len(fileList) = 2
    /\ ~IsJsonArray(tJSON.text)
    /\ err = "ValueError"

\* C17: in one generateReport run on a selection that is not empty, the
\* merge and build of readFiles runs once if any report flag is set, in the
\* first enabled report in the order eventFrequencyPlot, eventMatricPlot,
\* analyzeEventMatric, and not at all if none is set; never twice, so the
\* later reports work on the data set already built.
C17_MergeAtMostOnce ==
    (IsReportRun /\ fileList # <<>>) =>
        /\ Len(op.reads) <= 1
        /\ AnyFlag => op.reads = << FirstEnabled >>
        /\ ~AnyFlag => op.reads = <<>>

\* The three reports of one run on two selected files: one merge, by the
\* frequency report, and the charts of all three.
C17_Witness ==
    /\ IsReportRun
    /\ op.eventCount /\ op.eventMatricCount /\ op.eventMatric
    /\ Len(fileList) = 2
    /\ err = "ok"
    /\ op.reads = << "eventFrequencyPlot" >>
    /\ Len(charts) >= 3
    /\ charts[1].kind = "bar" /\ charts[2].kind = "bar" /\ charts[3].kind = "line"

====
